---- MODULE Spec2Model ----
(***************************************************************************)
(* Countdown / task timer (yasuraok/timer).  Two builds of the page script *)
(* are modelled: src/app.js ("app") and src/unnamed/part_000 ("part").     *)
(* Both share the globals config, tasks, completedTasks, timerInterval and *)
(* alarmPlayed; they differ in where the encouragement message and the     *)
(* time-shortage warning are written.                                      *)
(*                                                                         *)
(* Time is the local wall clock in milliseconds since local midnight of    *)
(* the day the page was loaded.  The local time zone is taken to have no   *)
(* daylight-saving transition, so setDate(getDate() + 1) adds DayMs.       *)
(* The DOM elements the handlers look up (tasksBar, bufferMessage,         *)
(* remainingTimeBar, alarmAudio, ...) are taken to exist.                  *)
(***************************************************************************)
EXTENDS Integers, Sequences, FiniteSets, TLC

\* ---------------------------------------------------------------- constants
MsPerSec == 1000
SecPerMin == 60
MinuteMs == 60000
HourMs == 3600000
DayMs == 86400000
IntervalMs == 1000
FullPercent == 100

\* ------------------------------------------------------------------- bounds
\* interval callbacks run after a page load or after a wake-up
MaxTicks == 2
\* milliseconds by which the clock may move on between two clock reads of
\* one handler
MaxSkew == 1
\* device suspensions (timers do not fire while suspended)
MaxSuspends == 1

\* ------------------------------------------------------------------- inputs
NULL == "null"
NullConfig == [null |-> TRUE]
NoTime == <<>>

\* the target of the sample configurations: 00:03
SampleTarget == <<0, 3>>
SampleTargetMs == SampleTarget[1] * HourMs + SampleTarget[2] * MinuteMs

\* task lists (durations in minutes, by definition index 0, 1, ...) whose
\* durations sum to 0
EmptyTaskLists == {<< >>, <<0>>}

\* config.json as parsed: well-formed ones, one without tasks, one without
\* targetTime
Configs ==
    [targetTime : {SampleTarget}, bufferMinutes : {0, 1}, tasks : EmptyTaskLists]
    \cup {[targetTime |-> SampleTarget, bufferMinutes |-> 1, tasks |-> <<2, 1>>]}
    \cup {[targetTime |-> SampleTarget, bufferMinutes |-> 1]}
    \cup {[bufferMinutes |-> 1, tasks |-> <<2, 1>>]}

\* what response.json() yields: a parse failure, null, or an object
Bodies == {[invalid |-> TRUE], NullConfig} \cup Configs

\* ?time=HHMM as getTargetTimeFromURL returns it (null or "HH:MM")
UrlTimes == {NoTime, SampleTarget}

\* wall-clock times at which the page is loaded
LoadTimes ==
    {SampleTargetMs - 2 * MsPerSec + p : p \in {0, 500, 999}}
    \cup {SampleTargetMs - 61 * MsPerSec + 500}
    \cup {DayMs - 1500}

\* how long after the previous handler a click is handled
ClickDelays == {0, 500}

\* lengths of a suspension
SuspendLengths == {DayMs - 2 * MsPerSec}

Builds == {"app", "part"}

VARIABLES
    build,            \* which script the page runs
    pc,               \* position of init: start, fetching, parsing, done, caught
    config, tasks, completedTasks, timerInterval, alarmPlayed,   \* the globals
    clock,            \* wall clock when the last handler was entered
    intervals,        \* interval timers registered with setInterval
    nextFire,         \* when the registered interval is next due
    rendered,         \* task indices of the segments in tasksBar, left to right
    bufferSegment,    \* part: message of the buffer segment (renderTasks)
    bufferMessage,    \* app: colour and text of #bufferMessage
    warningText,      \* part: text of #warningText
    remainingTimeBar, \* style.width of #remainingTimeBar, a fraction num/den in %
    plays,            \* calls of playAlarm so far
    lastOp,           \* the handler that ran last, with its argument
    obs,              \* what the last handler read and computed
    hist,             \* history of the ticks since the page was loaded or woke up
    ticks, suspends   \* counters that bound the run

vars == <<build, pc, config, tasks, completedTasks, timerInterval, alarmPlayed,
          clock, intervals, nextFire, rendered, bufferSegment, bufferMessage,
          warningText, remainingTimeBar, plays, lastOp, obs, hist, ticks, suspends>>

\* ------------------------------------------------------------------ helpers
Has(obj, field) == field \in DOMAIN obj

Max(a, b) == IF a >= b THEN a ELSE b

RECURSIVE SumDurations(_, _)
\* sum of tsk[i + 1] over the indices i in S
SumDurations(tsk, S) ==
    IF S = {} THEN 0
    ELSE LET i == CHOOSE j \in S : TRUE
         IN tsk[i + 1] + SumDurations(tsk, S \ {i})

Indices(tsk) == 0 .. (Len(tsk) - 1)

\* the clock reads of one handler: n reads, the first at t; the clock may
\* move on once while the handler runs, by at most MaxSkew ms, before read k
ReadTimes(t, n) ==
    {[i \in 1 .. n |-> IF i < k THEN t ELSE t + s] :
        k \in 2 .. n, s \in 0 .. MaxSkew}

\* --------------------------------------------------------------- core logic
getTargetDateThrows(cfg) ==
    IF cfg = NullConfig THEN TRUE
    ELSE IF ~Has(cfg, "targetTime") THEN TRUE
    ELSE cfg.targetTime = NoTime

\* faulty variant: a target equal to now is kept for today
getTargetDateNotStrict(cfg, now) ==
    LET hours == cfg.targetTime[1]
        minutes == cfg.targetTime[2]
        target == (now - (now % DayMs)) + hours * HourMs + minutes * MinuteMs
    IN IF target < now THEN target + DayMs ELSE target

getTargetDate(cfg, now) ==
    LET hours == cfg.targetTime[1]
        minutes == cfg.targetTime[2]
        target == (now - (now % DayMs)) + hours * HourMs + minutes * MinuteMs
    IN IF target <= now THEN target + DayMs ELSE target

remainingSeconds(target, now) == (target - now) \div MsPerSec

getRemainingTaskTime(tsk, completed) ==
    SumDurations(tsk, Indices(tsk) \ completed) * SecPerMin

getTotalTaskTime(tsk) == SumDurations(tsk, Indices(tsk)) * SecPerMin

formatDuration(seconds) ==
    LET s == IF seconds < 0 THEN 0 ELSE seconds
    IN [mins |-> s \div SecPerMin, secs |-> s % SecPerMin]

\* faulty variant: the comparison off by one
isTimeLackingOrEqual(remainingTaskSeconds, remaining) ==
    remainingTaskSeconds >= remaining /\ remaining > 0

isTimeLacking(remainingTaskSeconds, remaining) ==
    remainingTaskSeconds > remaining /\ remaining > 0

encouragement(completedCount, totalCount) ==
    IF completedCount = 0 THEN [text |-> "ganbarou", n |-> 0]
    ELSE IF completedCount = totalCount THEN [text |-> "yokudekimashita", n |-> 0]
    ELSE [text |-> "ato", n |-> totalCount - completedCount]

\* ---------------------------------------------------------------- rendering
\* the comparator of renderTasks' sort: completed first, then definition order
\* faulty variant: the completion flags are ignored
compareIndexOnly(a, b, completed) == a - b

compare(a, b, completed) ==
    IF a \in completed /\ b \notin completed THEN -1
    ELSE IF a \notin completed /\ b \in completed THEN 1
    ELSE a - b

RECURSIVE insertSorted(_, _, _)
\* s with x put before the first element the comparator orders after x
insertSorted(x, s, completed) ==
    IF s = << >> THEN <<x>>
    ELSE IF compare(x, Head(s), completed) < 0 THEN <<x>> \o s
    ELSE <<Head(s)>> \o insertSorted(x, Tail(s), completed)

RECURSIVE sortPrefix(_, _)
\* Array.prototype.sort (stable) of the indices 0 .. n-1 under compare
sortPrefix(n, completed) ==
    IF n = 0 THEN << >>
    ELSE insertSorted(n - 1, sortPrefix(n - 1, completed), completed)

sortedTaskIndices(tsk, completed) == sortPrefix(Len(tsk), completed)

NoSegment == [text |-> "", n |-> 0]
StaticText == [color |-> "", text |-> [text |-> "", n |-> 0]]
Unset == [unset |-> TRUE]

\* part: the buffer segment renderTasks prepends, with its message
renderBufferSegment(cfg, tsk, completed) ==
    IF cfg # NullConfig /\ Has(cfg, "bufferMinutes") /\ cfg.bufferMinutes > 0
    THEN encouragement(Cardinality(completed), Len(tsk))
    ELSE NoSegment

\* ----------------------------------------------------------------- progress
\* faulty variant: Math.min(100, ...) is left out
widthPercentUncapped(remaining, totalTimeWithBuffer) ==
    [num |-> remaining * FullPercent, den |-> totalTimeWithBuffer]

widthPercent(remaining, totalTimeWithBuffer) ==
    IF remaining * FullPercent >= FullPercent * totalTimeWithBuffer
    THEN [num |-> FullPercent, den |-> 1]
    ELSE [num |-> remaining * FullPercent, den |-> totalTimeWithBuffer]

bufferSeconds(cfg) ==
    (IF Has(cfg, "bufferMinutes") THEN cfg.bufferMinutes ELSE 0) * SecPerMin

\* one "now = new Date(); target = getTargetDate()" pair and what it yields
timeReading(cfg, now, at) ==
    LET target == getTargetDate(cfg, at)
    IN [now |-> now, at |-> at, target |-> target,
        rem |-> remainingSeconds(target, now)]

\* style.width that updateProgress assigns, from its reading
updateProgress(cfg, tsk, reading) ==
    LET totalTimeWithBuffer == getTotalTaskTime(tsk) + bufferSeconds(cfg)
    IN IF totalTimeWithBuffer > 0
       THEN widthPercent(reading.rem, totalTimeWithBuffer)
       ELSE [num |-> 0, den |-> 1]

\* app: colour and text updateBufferMessage assigns, from its reading
updateBufferMessage(tsk, completed, reading) ==
    [color |-> IF isTimeLacking(getRemainingTaskTime(tsk, completed), reading.rem)
               THEN "#ff0000" ELSE "#666",
     text |-> encouragement(Cardinality(completed), Len(tsk))]

\* part: text updateTimer assigns to #warningText ("" when there is none)
warningMessage(tsk, completed, reading) ==
    LET remainingTaskSeconds == getRemainingTaskTime(tsk, completed)
    IN IF isTimeLacking(remainingTaskSeconds, reading.rem)
       THEN [warn |-> TRUE, short |-> formatDuration(remainingTaskSeconds - reading.rem)]
       ELSE [warn |-> FALSE, short |-> formatDuration(0)]

\* the alarm step of updateTimer: <<playAlarm called, new alarmPlayed>>
\* faulty variant: alarmPlayed is not set after playAlarm()
alarmStepFlagNotSet(remaining, played) ==
    IF remaining <= 0 /\ ~played THEN [play |-> TRUE, alarmPlayed |-> FALSE]
    ELSE IF remaining > 0 THEN [play |-> FALSE, alarmPlayed |-> FALSE]
    ELSE [play |-> FALSE, alarmPlayed |-> played]

alarmStep(remaining, played) ==
    IF remaining <= 0 /\ ~played THEN [play |-> TRUE, alarmPlayed |-> TRUE]
    ELSE IF remaining > 0 THEN [play |-> FALSE, alarmPlayed |-> FALSE]
    ELSE [play |-> FALSE, alarmPlayed |-> played]

\* clock reads of one updateTimer call
NumReads(b) == IF b = "app" THEN 6 ELSE 4

\* everything one updateTimer call computes, from its clock reads r
updateTimer(b, cfg, tsk, completed, played, r) ==
    LET own == timeReading(cfg, r[1], r[2])
        msg == timeReading(cfg, r[3], r[4])
        prog == IF b = "app" THEN timeReading(cfg, r[5], r[6]) ELSE msg
        alarm == alarmStep(own.rem, played)
    IN [readings |-> IF b = "app" THEN <<own, msg, prog>> ELSE <<own, prog>>,
        bufferMessage |-> updateBufferMessage(tsk, completed, msg),
        warningText |-> warningMessage(tsk, completed, own),
        width |-> updateProgress(cfg, tsk, prog),
        play |-> alarm.play,
        alarmPlayed |-> alarm.alarmPlayed]

\* ------------------------------------------------------------------ history
NoHist == [loadedAt |-> 0, firstTick |-> -1, lastTick |-> -1,
           alarmedTarget |-> -1, resetSincePlay |-> FALSE]

\* hist after an updateTimer call with result u
histAfterTick(h, u) ==
    LET now == u.readings[1].now
    IN [h EXCEPT !.firstTick = IF h.firstTick = -1 THEN now ELSE h.firstTick,
                 !.lastTick = now,
                 !.alarmedTarget = IF u.play THEN u.readings[1].target
                                   ELSE h.alarmedTarget,
                 !.resetSincePlay = IF u.play THEN FALSE
                                    ELSE IF u.readings[1].rem > 0 THEN TRUE
                                    ELSE h.resetSincePlay]

\* --------------------------------------------------------------------- init
Init ==
    /\ build \in Builds
    /\ pc = "start"
    /\ config = NullConfig
    /\ tasks = << >>
    /\ completedTasks = {}
    /\ timerInterval = NULL
    /\ alarmPlayed = FALSE
    /\ clock \in LoadTimes
    /\ intervals = 0
    /\ nextFire = 0
    /\ rendered = << >>
    /\ bufferSegment = NoSegment
    /\ bufferMessage = StaticText
    /\ warningText = [warn |-> FALSE, short |-> formatDuration(0)]
    /\ remainingTimeBar = Unset
    /\ plays = 0
    /\ lastOp = [op |-> "load", arg |-> 0]
    /\ obs = [readings |-> << >>, threw |-> FALSE]
    /\ hist = [NoHist EXCEPT !.loadedAt = clock]
    /\ ticks = 0
    /\ suspends = 0

\* faulty variant: setInterval is called before the first updateTimer()
startTimerRegistersAlways(threw) == TRUE

\* startTimer reaches setInterval only when its updateTimer() call returned
startTimerRegisters(threw) == ~threw

\* faulty variant: init may be entered again after it has finished
initPendingOrDone(p) == p \in {"start", "done"}

\* init is entered once, by the DOMContentLoaded event
initPending(p) == p = "start"

\* DOMContentLoaded: init runs up to "await fetch('config.json')"
DOMContentLoaded ==
    /\ initPending(pc)
    /\ pc' = "fetching"
    /\ lastOp' = [op |-> "init", arg |-> 0]
    /\ UNCHANGED <<build, config, tasks, completedTasks, timerInterval, alarmPlayed,
                   clock, intervals, nextFire, rendered, bufferSegment,
                   bufferMessage, warningText, remainingTimeBar, plays, obs, hist,
                   ticks, suspends>>

\* fetch settles: init resumes up to "await response.json()", or catches
fetchSettled(ok) ==
    /\ pc = "fetching"
    /\ pc' = IF ok THEN "parsing" ELSE "caught"
    /\ lastOp' = [op |-> "init", arg |-> 0]
    /\ UNCHANGED <<build, config, tasks, completedTasks, timerInterval, alarmPlayed,
                   clock, intervals, nextFire, rendered, bufferSegment,
                   bufferMessage, warningText, remainingTimeBar, plays, obs, hist,
                   ticks, suspends>>

\* config.targetTime = urlTime (when the URL gives one)
withUrlTime(body, urlTime) ==
    IF urlTime = NoTime THEN body
    ELSE [f \in DOMAIN body \cup {"targetTime"} |->
             IF f = "targetTime" THEN urlTime ELSE body[f]]

\* response.json() settles with body: the rest of init, to its end or its catch
initResume(body, urlTime) ==
    /\ pc = "parsing"
    /\ lastOp' = [op |-> "init", arg |-> 0]
    /\ UNCHANGED <<build, completedTasks, ticks, suspends>>
    /\ \/ \* response.json() rejects
          /\ Has(body, "invalid")
          /\ pc' = "caught"
          /\ UNCHANGED <<config, tasks, timerInterval, alarmPlayed, clock, intervals,
                         nextFire, rendered, bufferSegment, bufferMessage,
                         warningText, remainingTimeBar, plays, obs, hist>>
       \/ \* config = null; throw new Error('Config is null')
          /\ body = NullConfig
          /\ config' = NullConfig
          /\ pc' = "caught"
          /\ UNCHANGED <<tasks, timerInterval, alarmPlayed, clock, intervals,
                         nextFire, rendered, bufferSegment, bufferMessage,
                         warningText, remainingTimeBar, plays, obs, hist>>
       \/ \* [...config.tasks] throws: config.tasks is undefined
          /\ ~Has(body, "invalid") /\ body # NullConfig /\ ~Has(body, "tasks")
          /\ config' = withUrlTime(body, urlTime)
          /\ pc' = "caught"
          /\ UNCHANGED <<tasks, timerInterval, alarmPlayed, clock, intervals,
                         nextFire, rendered, bufferSegment, bufferMessage,
                         warningText, remainingTimeBar, plays, obs, hist>>
       \/ \* renderTasks(); startTimer(): the first updateTimer throws
          /\ ~Has(body, "invalid") /\ body # NullConfig /\ Has(body, "tasks")
          /\ getTargetDateThrows(withUrlTime(body, urlTime))
          /\ config' = withUrlTime(body, urlTime)
          /\ tasks' = body.tasks
          /\ rendered' = sortedTaskIndices(body.tasks, completedTasks)
          /\ bufferSegment' = IF build = "part"
                              THEN renderBufferSegment(config', body.tasks, completedTasks)
                              ELSE bufferSegment
          /\ obs' = [readings |-> << >>, threw |-> TRUE]
          /\ timerInterval' = IF startTimerRegisters(TRUE) THEN "interval"
                               ELSE timerInterval
          /\ intervals' = IF startTimerRegisters(TRUE) THEN intervals + 1
                           ELSE intervals
          /\ pc' = "caught"
          /\ UNCHANGED <<alarmPlayed, clock, nextFire, bufferMessage, warningText,
                         remainingTimeBar, plays, hist>>
       \/ \* renderTasks(); startTimer(): updateTimer(), then setInterval
          /\ UNCHANGED clock
          /\ ~Has(body, "invalid") /\ body # NullConfig /\ Has(body, "tasks")
          /\ ~getTargetDateThrows(withUrlTime(body, urlTime))
          /\ config' = withUrlTime(body, urlTime)
          /\ tasks' = body.tasks
          /\ rendered' = sortedTaskIndices(body.tasks, completedTasks)
          /\ bufferSegment' = IF build = "part"
                              THEN renderBufferSegment(config', body.tasks, completedTasks)
                              ELSE bufferSegment
          /\ \E r \in ReadTimes(clock, NumReads(build)) :
                LET u == updateTimer(build, config', body.tasks, completedTasks,
                                     alarmPlayed, r)
                IN /\ alarmPlayed' = u.alarmPlayed
                   /\ plays' = IF u.play THEN plays + 1 ELSE plays
                   /\ bufferMessage' = IF build = "app" THEN u.bufferMessage
                                       ELSE bufferMessage
                   /\ warningText' = IF build = "part" THEN u.warningText
                                     ELSE warningText
                   /\ remainingTimeBar' = u.width
                   /\ obs' = [readings |-> u.readings, threw |-> FALSE]
                   /\ hist' = histAfterTick(hist, u)
                   /\ nextFire' = r[NumReads(build)] + IntervalMs
          /\ timerInterval' = IF startTimerRegisters(FALSE) THEN "interval"
                               ELSE timerInterval
          /\ intervals' = IF startTimerRegisters(FALSE) THEN intervals + 1
                           ELSE intervals
          /\ pc' = "done"

\* ------------------------------------------------------------ the handlers
\* the interval fires when it is due (at once when overdue): updateTimer()
intervalCallback ==
    /\ intervals > 0
    /\ ~getTargetDateThrows(config)
    /\ ticks < MaxTicks
    /\ LET t == Max(nextFire, clock)
       IN \E r \in ReadTimes(t, NumReads(build)) :
             LET u == updateTimer(build, config, tasks, completedTasks,
                                  alarmPlayed, r)
             IN /\ alarmPlayed' = u.alarmPlayed
                /\ plays' = IF u.play THEN plays + 1 ELSE plays
                /\ bufferMessage' = IF build = "app" THEN u.bufferMessage
                                    ELSE bufferMessage
                /\ warningText' = IF build = "part" THEN u.warningText
                                  ELSE warningText
                /\ remainingTimeBar' = u.width
                /\ obs' = [readings |-> u.readings, threw |-> FALSE]
                /\ hist' = histAfterTick(hist, u)
                /\ clock' = t
                /\ nextFire' = t + IntervalMs
    /\ ticks' = ticks + 1
    /\ lastOp' = [op |-> "updateTimer", arg |-> 0]
    /\ UNCHANGED <<build, pc, config, tasks, completedTasks, timerInterval,
                   intervals, rendered, bufferSegment, suspends>>

\* faulty variant: a completed task is never un-completed
toggleCompletedAddOnly(completed, taskId) == completed \cup {taskId}

\* completedTasks.has(taskId) ? delete(taskId) : add(taskId)
toggleCompleted(completed, taskId) ==
    IF taskId \in completed THEN completed \ {taskId} ELSE completed \cup {taskId}

\* a click on the segment of task taskId, d ms after the last handler:
\* toggleTask(taskId)
toggleTask(taskId, d) ==
    /\ \E k \in 1 .. Len(rendered) : rendered[k] = taskId
    /\ IF intervals > 0 THEN clock + d < nextFire
       ELSE clock + d < hist.loadedAt + IntervalMs
    /\ completedTasks' = toggleCompleted(completedTasks, taskId)
    /\ rendered' = sortedTaskIndices(tasks, completedTasks')
    /\ bufferSegment' = IF build = "part"
                        THEN renderBufferSegment(config, tasks, completedTasks')
                        ELSE bufferSegment
    /\ IF getTargetDateThrows(config)
       THEN \* updateProgress throws out of the handler
            /\ obs' = [readings |-> << >>, threw |-> TRUE]
            /\ clock' = clock + d
            /\ UNCHANGED remainingTimeBar
       ELSE \E r \in ReadTimes(clock + d, 2) :
               LET reading == timeReading(config, r[1], r[2])
               IN /\ remainingTimeBar' = updateProgress(config, tasks, reading)
                  /\ obs' = [readings |-> <<reading>>, threw |-> FALSE]
                  /\ clock' = clock + d
    /\ lastOp' = [op |-> "toggleTask", arg |-> taskId]
    /\ UNCHANGED <<build, pc, config, tasks, timerInterval, alarmPlayed, intervals,
                   nextFire, bufferMessage, warningText, plays, hist, ticks,
                   suspends>>

\* the device is suspended for len ms (here: after the ticks above have run):
\* no handler runs, the clock moves on, the overdue interval fires on wake-up
Suspend(len) ==
    /\ lastOp.op = "updateTimer"
    /\ ticks = MaxTicks
    /\ suspends < MaxSuspends
    /\ clock' = clock + len
    /\ suspends' = suspends + 1
    /\ ticks' = 0
    /\ hist' = [hist EXCEPT !.loadedAt = clock + len, !.firstTick = -1]
    /\ lastOp' = [op |-> "suspend", arg |-> 0]
    /\ UNCHANGED <<build, pc, config, tasks, completedTasks, timerInterval,
                   alarmPlayed, intervals, nextFire, rendered, bufferSegment,
                   bufferMessage, warningText, remainingTimeBar, plays, obs>>

Next ==
    \/ DOMContentLoaded
    \/ \E ok \in BOOLEAN : fetchSettled(ok)
    \/ \E body \in Bodies, urlTime \in UrlTimes : initResume(body, urlTime)
    \/ intervalCallback
    \/ \E taskId \in 0 .. 2, d \in ClickDelays : toggleTask(taskId, d)
    \/ \E len \in SuspendLengths : Suspend(len)

Spec == Init /\ [][Next]_vars

\* =================================================================== claims
\* vocabulary of the claims, stated apart from the handlers' code
AfterUpdateTimer ==
    lastOp.op = "updateTimer" \/ (lastOp.op = "init" /\ pc = "done")

Min(a, b) == IF a <= b THEN a ELSE b

\* minutes of the tasks whose completion flag is not set, in seconds
UncompletedSeconds ==
    SumDurations(tasks, {i \in Indices(tasks) : i \notin completedTasks}) * 60

\* whether the user is warned of a time shortage
Warned ==
    IF build = "app" THEN bufferMessage.color = "#ff0000" ELSE warningText.warn

\* the remaining seconds the warning of the last updateTimer was computed from
WarnedRemaining ==
    IF build = "app" THEN obs.readings[2].rem ELSE obs.readings[1].rem

\* the encouragement message that fits the completion flags
FittingMessage ==
    IF completedTasks = {} THEN [text |-> "ganbarou", n |-> 0]
    ELSE IF Cardinality(completedTasks) = Len(tasks)
         THEN [text |-> "yokudekimashita", n |-> 0]
    ELSE [text |-> "ato", n |-> Len(tasks) - Cardinality(completedTasks)]

\* the target instant (HH:MM:00) most recently reached at time t
LastArrival(t) ==
    LET today == (t - (t % DayMs)) + config.targetTime[1] * HourMs
                     + config.targetTime[2] * MinuteMs
    IN IF today <= t THEN today ELSE today - DayMs

\* C1: while the interval has been ticking since before an arrival at the
\* target and a tick has run at or after that arrival, the alarm was played
\* for that arrival (some tick saw remainingSeconds <= 0 and called playAlarm).
C1_AlarmNeverMissed ==
    (intervals > 0 /\ hist.firstTick # -1
        /\ hist.firstTick < LastArrival(hist.lastTick))
    => hist.alarmedTarget = LastArrival(hist.lastTick)

\* C2 (as claimed): right after an updateTimer call the user is warned exactly
\* when the uncompleted tasks' seconds exceed the remaining seconds, also when
\* the remaining seconds are 0.
C2_WarnedIffExceeds ==
    AfterUpdateTimer => (Warned <=> UncompletedSeconds > WarnedRemaining)

\* C2 (amended): right after an updateTimer call the user is warned exactly
\* when the uncompleted tasks' seconds exceed the remaining seconds and the
\* remaining seconds are positive; with 0 seconds remaining there is no warning.
C2_WarnedIffExceedsAndPositive ==
    AfterUpdateTimer =>
        (Warned <=> (UncompletedSeconds > WarnedRemaining /\ WarnedRemaining > 0))

\* a warning is shown while one task is completed and one is not
C2_Witness ==
    /\ AfterUpdateTimer
    /\ Warned
    /\ completedTasks = {0}
    /\ WarnedRemaining = 59

\* C3: a toggleTask(i) step flips the completion flag of i, keeps the flag of
\* every other index, and leaves config, tasks and alarmPlayed unchanged.
C3_ToggleFlipsOnlyOne ==
    [][\A i \in 0 .. 2 :
          (lastOp'.op = "toggleTask" /\ lastOp'.arg = i) =>
              /\ (i \in completedTasks') <=> (i \notin completedTasks)
              /\ \A j \in (0 .. 2) \ {i} :
                    (j \in completedTasks') <=> (j \in completedTasks)
              /\ config' = config
              /\ tasks' = tasks
              /\ alarmPlayed' = alarmPlayed]_vars

\* task 0 has just been un-completed while task 1 stays completed
C3_Witness ==
    /\ lastOp.op = "toggleTask"
    /\ lastOp.arg = 0
    /\ completedTasks = {1}

\* C4: the rendered segments are a permutation of all task indices, completed
\* tasks before uncompleted ones, each group in ascending definition index.
C4_RenderedOrder ==
    /\ Len(rendered) = Len(tasks)
    /\ \A i \in Indices(tasks) : \E k \in 1 .. Len(rendered) : rendered[k] = i
    /\ \A k, l \in 1 .. Len(rendered) :
          k < l =>
              /\ rendered[l] \in completedTasks => rendered[k] \in completedTasks
              /\ ((rendered[k] \in completedTasks) <=> (rendered[l] \in completedTasks))
                    => rendered[k] < rendered[l]

\* after a toggle the completed task 1 is drawn left of the uncompleted task 0
C4_Witness ==
    /\ lastOp.op = "toggleTask"
    /\ completedTasks = {1}
    /\ rendered = <<1, 0>>

\* C5: once init has caught a failure, no interval timer is registered,
\* timerInterval is null, no updateTimer call has completed and the alarm has
\* not been played.
C5_FailedInitStartsNothing ==
    pc = "caught" =>
        /\ timerInterval = NULL
        /\ intervals = 0
        /\ hist.lastTick = -1
        /\ plays = 0
        /\ ~alarmPlayed

\* init failed in its first updateTimer (no targetTime); a click was handled
C5_Witness ==
    /\ pc = "caught"
    /\ config # NullConfig
    /\ lastOp.op = "toggleTask"
    /\ completedTasks # {}

\* C6: at most one interval timer is registered; one is registered exactly
\* when timerInterval is set, and only after init has run to its end.
C6_AtMostOneInterval ==
    /\ intervals <= 1
    /\ (intervals = 1) <=> (timerInterval # NULL)
    /\ intervals = 1 => pc = "done"

\* the interval is registered and has fired
C6_Witness ==
    /\ intervals = 1
    /\ lastOp.op = "updateTimer"
    /\ ticks >= 2

\* C7: playAlarm is called only by an updateTimer call that found alarmPlayed
\* false and remainingSeconds <= 0, alarmPlayed is true afterwards, and since
\* the previous playAlarm a tick with remainingSeconds > 0 has reset the flag;
\* a toggleTask step changes neither alarmPlayed nor the number of plays.
C7_AlarmOncePerArrival ==
    [][/\ plays' # plays =>
            /\ lastOp'.op \in {"updateTimer", "init"}
            /\ plays' = plays + 1
            /\ ~alarmPlayed
            /\ alarmPlayed'
            /\ obs'.readings[1].rem <= 0
            /\ plays > 0 => hist.resetSincePlay
       /\ (lastOp'.op = "updateTimer" /\ obs'.readings[1].rem > 0) =>
            (~alarmPlayed' /\ hist'.resetSincePlay)
       /\ lastOp'.op = "toggleTask" =>
            (alarmPlayed' = alarmPlayed /\ plays' = plays)]_vars

\* the alarm has been played for a second arrival
C7_Witness ==
    /\ plays = 2
    /\ alarmPlayed

\* C8: after a toggleTask or updateTimer call that ran to its end the
\* encouragement message shown fits the completion flags (app: #bufferMessage; part: the buffer segment,
\* when there is one).
C8_MessageUpToDate ==
    ((lastOp.op = "toggleTask" /\ ~obs.threw) \/ AfterUpdateTimer) =>
        IF build = "app" THEN bufferMessage.text = FittingMessage
        ELSE (bufferSegment # NoSegment => bufferSegment = FittingMessage)

WidthFitsReading ==
    (obs.readings # << >> /\ remainingTimeBar # Unset) =>
        LET rd == obs.readings[Len(obs.readings)]
            total == (SumDurations(tasks, Indices(tasks)) + config.bufferMinutes) * 60
            w == remainingTimeBar
        IN /\ w.den > 0
           /\ 0 <= w.num
           /\ w.num <= 100 * w.den
           /\ total > 0 => w.num * total = w.den * Min(100 * total, rd.rem * 100)
           /\ total = 0 => w.num = 0

\* C10: after every updateProgress call the bar's width is in 0% .. 100%,
\* is min(100, remainingSeconds / (task seconds + buffer seconds) * 100) when
\* that total is positive and 0% when it is 0; a toggleTask step that reads
\* the same clock values as the handler before it leaves the width unchanged.
C10_BarWidth ==
    [][/\ WidthFitsReading'
       /\ (/\ lastOp'.op = "toggleTask"
           /\ obs.readings # << >>
           /\ obs'.readings # << >>
           /\ obs'.readings[1].now = obs.readings[Len(obs.readings)].now
           /\ obs'.readings[1].at = obs.readings[Len(obs.readings)].at)
          => remainingTimeBar' = remainingTimeBar]_vars

\* a toggle left the bar at 25%: 60 s remain of 240 s of tasks and buffer
C10_Witness ==
    /\ lastOp.op = "toggleTask"
    /\ completedTasks = {0, 1}
    /\ remainingTimeBar = [num |-> 6000, den |-> 240]

====
